---------------------------- MODULE Spec2Model ----------------------------
(***************************************************************************)
(* Synced<SaveableToml<T>> (src/src/synced_state_toml.rs): one value of T  *)
(* behind a tokio Mutex, loaded at init, notified and persisted on every   *)
(* mutate.  T is modelled as a natural-number counter whose default is 0.  *)
(* The file is modelled as a sequence of characters, written by Render and *)
(* read by Parse.                                                          *)
(***************************************************************************)
EXTENDS Naturals, Sequences, FiniteSets

(* ------------------------------ bounds --------------------------------- *)
\* number of concurrent tasks sharing the instance
NumTasks == 2
\* mutate/set/reset calls issued over the whole run
MaxCalls == 2
\* process restarts (a new init against the same location)
MaxRestarts == 1

(* ----------------------------- constants ------------------------------- *)
\* T::default()
Default == 0
\* the mutex's "nobody holds it" owner
NoTask == 0

Tasks == 1..NumTasks
\* arguments the callers pass to set(v)
SetVals == {1}
\* values written through the guard returned by lock()
GuardVals == {7}
\* values whose encoding may already be on disk when the process first starts
DiskVals == {12}

(* ------------------- the codec and the file (SaveableToml) ------------- *)
DigitChars == <<"0", "1", "2", "3", "4", "5", "6", "7", "8", "9">>

RECURSIVE Digits(_)
Digits(n) == IF n < 10 THEN <<DigitChars[n + 1]>>
             ELSE Digits(n \div 10) \o <<DigitChars[(n % 10) + 1]>>

\* the structured-text encoding of a value
Render(v) == <<"n", "=">> \o Digits(v)

DigitVal(c) == CHOOSE d \in 0..9 : DigitChars[d + 1] = c

IsDigit(c) == \E d \in 0..9 : DigitChars[d + 1] = c

RECURSIVE Number(_)
Number(ds) == IF Len(ds) = 0 THEN 0
              ELSE 10 * Number(SubSeq(ds, 1, Len(ds) - 1)) + DigitVal(ds[Len(ds)])

\* decoding: a value, or a format error
Parse(s) ==
    IF /\ Len(s) >= 3
       /\ s[1] = "n"
       /\ s[2] = "="
       /\ \A i \in 3..Len(s) : IsDigit(s[i])
    THEN [ok |-> TRUE, val |-> Number(SubSeq(s, 3, Len(s)))]
    ELSE [ok |-> FALSE, val |-> Default]

NoFile == [exists |-> FALSE, content |-> <<>>]

FileOf(s) == [exists |-> TRUE, content |-> s]

Malformed == FileOf(<<"n", "=", "x">>)

\* SaveableToml::load_path: Err on a missing file, a failed read, bad content
LoadPath(d, readOk) ==
    IF ~d.exists THEN [ok |-> FALSE, err |-> "notfound", val |-> Default]
    ELSE IF ~readOk THEN [ok |-> FALSE, err |-> "io", val |-> Default]
    ELSE IF ~Parse(d.content).ok THEN [ok |-> FALSE, err |-> "decode", val |-> Default]
    ELSE [ok |-> TRUE, err |-> "none", val |-> Parse(d.content).val]

\* SaveableToml::new: T::default() bound to the path, no I/O
NewState == Default

\* SaveableToml::save: a total overwrite when it succeeds, nothing when it fails
SaveTo(d, v, writeOk) == IF writeOk THEN FileOf(Render(v)) ELSE d

(* ------------------------------ state ---------------------------------- *)
VARIABLES
    phase,      \* "start" | "resolved" | "loaded" | "ready" | "panicked"
    loadRes,    \* the Result load_path returned, while init holds it
    disk,       \* the file at the resolved location
    mem,        \* the value inside the mutex (lock.state)
    owner,      \* the task holding the mutex, or NoTask
    guardHeld,  \* TRUE while the owner holds the guard returned by lock()
    waiters,    \* tasks suspended in state.lock().await, first come first
    pc,         \* each task's position in its current call
    op,         \* each task's current call
    sent,       \* per call in flight: what emit_all answered
    event,      \* what the last step returned to a caller, if it was a return
    emitted,    \* payloads handed to emit_all, in order (this life)
    applied,    \* values right after each transform, in commit order (this life)
    calls,      \* mutate/set/reset calls issued over the whole run
    issued,     \* mutate/set/reset calls issued in this life
    restarts,   \* process restarts so far
    v0,         \* the value the container held after init
    logs,       \* diagnostics written to stderr in this life
    hist,       \* what kind of history this life has had so far (see NoHist)
    persisted,  \* the value of the last successful write to the file, if any
    diskAtLock, \* the file as the current lock holder found it
    dirty,      \* the value was written through a guard after the last emit_all
    pinned,     \* the argument of the last set/reset that returned, while no
                \* later transform or guard write has touched the value
    durability  \* persist attempts of this life: "none" made by a completed
                \* mutate yet, "ok" (a mutate completed, every attempt so
                \* far succeeded) or "fault" (one failed or was cut short)

vars == <<phase, loadRes, disk, mem, owner, guardHeld, waiters, pc, op, sent,
          event, emitted, applied, calls, issued, restarts, v0, logs, hist,
          persisted, diskAtLock, dirty, pinned, durability>>

Inc == [k |-> "inc", v |-> 0]
SetTo(v) == [k |-> "set", v |-> v]
Id == [k |-> "id", v |-> 0]

\* the closure a caller hands to mutate, applied to the live value
ApplyFn(f, x) == CASE f.k = "inc" -> x + 1
                   [] f.k = "set" -> f.v
                   [] OTHER -> x

OpGet == [name |-> "get", f |-> Id]
OpSave == [name |-> "save", f |-> Id]
OpLock == [name |-> "lock", f |-> Id]
OpMutate(f) == [name |-> "mutate", f |-> f]
\* set(v) is mutate(|value| *value = v)
OpSet(v) == [name |-> "set", f |-> SetTo(v)]
\* mutant: reset() leaves the value as it is
OpResetNoop == [name |-> "reset", f |-> Id]

\* reset() is set(T::default())
OpReset == [name |-> "reset", f |-> SetTo(Default)]

MutOps == {OpMutate(Inc)} \cup {OpSet(v) : v \in SetVals} \cup {OpReset}

Ops == {OpGet, OpSave, OpLock} \cup MutOps

IsMut(o) == o.name \in {"mutate", "set", "reset"}

NoLoad == [ok |-> TRUE, err |-> "none", val |-> Default]

NoEvent == [op |-> OpGet, kind |-> "none", val |-> 0, emit |-> "none",
            persist |-> "none", found |-> NoFile]

\* a call of o returned (kind: "unit", "value", "ok", "err", "guard") or was
\* dropped ("cancelled"); found is the file as the call found it when it got
\* the lock
Returned(o, kind, val, emit, persist, found) ==
    [op |-> o, kind |-> kind, val |-> val, emit |-> emit, persist |-> persist,
     found |-> found]

NoPin == [valid |-> FALSE, val |-> 0]

\* what set(v) and reset() promise the value to be
PinOf(o) == [valid |-> TRUE, val |-> IF o.name = "reset" THEN Default ELSE o.f.v]

NoPersisted == [valid |-> FALSE, val |-> 0]

(***************************************************************************)
(* hist: undisturbed = no write through a guard and no cancellation so     *)
(* far; sequential = no mutate was issued while another one was in flight; *)
(* onlyInc = every mutate issued so far was the increment; composed = the  *)
(* transforms issued so far, applied to v0 in call order.  A history that  *)
(* is no longer undisturbed (or sequential) keeps no further detail.       *)
(***************************************************************************)
NoHist == [undisturbed |-> TRUE, sequential |-> TRUE, onlyInc |-> TRUE,
           composed |-> Default]

Norm(h) ==
    IF ~h.undisturbed
    THEN [undisturbed |-> FALSE, sequential |-> FALSE, onlyInc |-> FALSE,
          composed |-> Default]
    ELSE IF ~h.sequential THEN [h EXCEPT !.composed = Default]
    ELSE h

Disturbed(h) == Norm([h EXCEPT !.undisturbed = FALSE])

\* a mutate/set/reset of task t is somewhere between its call and its return
MutInFlight(t) == pc[t] # "idle" /\ IsMut(op[t])

Init ==
    /\ phase = "start"
    /\ loadRes = NoLoad
    /\ disk \in {NoFile, Malformed} \cup {FileOf(Render(v)) : v \in DiskVals}
    /\ mem = Default
    /\ owner = NoTask
    /\ guardHeld = FALSE
    /\ waiters = <<>>
    /\ pc = [t \in Tasks |-> "idle"]
    /\ op = [t \in Tasks |-> OpGet]
    /\ sent = [t \in Tasks |-> "none"]
    /\ event = NoEvent
    /\ emitted = <<>>
    /\ applied = <<>>
    /\ calls = 0
    /\ issued = 0
    /\ restarts = 0
    /\ v0 = Default
    /\ logs = {}
    /\ hist = NoHist
    /\ persisted = NoPersisted
    /\ diskAtLock = NoFile
    /\ dirty = FALSE
    /\ pinned = NoPin
    /\ durability = "none"

(* ------------------------------- init ---------------------------------- *)
\* handle.path_resolver().app_config_dir().expect(..): None panics
Resolved(dirOk) == IF dirOk THEN "resolved" ELSE "panicked"

InitResolve ==
    /\ UNCHANGED <<dirty, pinned, durability>>
    /\ phase = "start"
    /\ \E dirOk \in BOOLEAN : phase' = Resolved(dirOk)
    /\ UNCHANGED <<loadRes, disk, mem, owner, guardHeld, waiters, pc, op, sent,
                   event, emitted, applied, calls, issued, restarts, v0, logs,
                   hist, persisted, diskAtLock>>

\* SaveableToml::<T>::load_path(&path).await
InitLoad ==
    /\ UNCHANGED <<dirty, pinned, durability>>
    /\ phase = "resolved"
    /\ \E readOk \in BOOLEAN : loadRes' = LoadPath(disk, readOk)
    /\ phase' = "loaded"
    /\ UNCHANGED <<disk, mem, owner, guardHeld, waiters, pc, op, sent, event,
                   emitted, applied, calls, issued, restarts, v0, logs, hist,
                   persisted, diskAtLock>>

\* mutant: init builds a fresh state whatever the load returned
LoadedAlwaysNew(r) == NewState

\* .unwrap_or_else(|error| { eprintln!(..); SaveableToml::<T>::new(&path) })
Loaded(r) == IF r.ok THEN r.val ELSE NewState

\* mutant: the load result is unwrapped, a load error panics
InitOutcomeUnwrap(r) == IF r.ok THEN "ready" ELSE "panicked"

\* unwrap_or_else never panics: init goes on to build the container
InitOutcome(r) == "ready"

\* mutant: the fallback writes the fresh default to the file at once
InitDoneWrites ==
    /\ UNCHANGED <<dirty, pinned, durability>>
    /\ phase = "loaded"
    /\ mem' = Loaded(loadRes)
    /\ v0' = mem'
    /\ hist' = [NoHist EXCEPT !.composed = mem']
    /\ logs' = IF loadRes.ok THEN logs ELSE logs \cup {"init"}
    /\ disk' = IF loadRes.ok THEN disk ELSE SaveTo(disk, NewState, TRUE)
    /\ loadRes' = NoLoad
    /\ phase' = InitOutcome(loadRes)
    /\ UNCHANGED <<owner, guardHeld, waiters, pc, op, sent, event, emitted,
                   applied, calls, issued, restarts, persisted, diskAtLock>>

\* Self { key, state: Arc::new(Mutex::new(state)), handle }
InitDone ==
    /\ UNCHANGED <<dirty, pinned, durability>>
    /\ phase = "loaded"
    /\ mem' = Loaded(loadRes)
    /\ v0' = mem'
    /\ hist' = [NoHist EXCEPT !.composed = mem']
    /\ logs' = IF loadRes.ok THEN logs ELSE logs \cup {"init"}
    /\ loadRes' = NoLoad
    /\ phase' = InitOutcome(loadRes)
    /\ UNCHANGED <<disk, owner, guardHeld, waiters, pc, op, sent, event,
                   emitted, applied, calls, issued, restarts, persisted,
                   diskAtLock>>

\* the process ends and a new one runs init against the same location
Restart ==
    /\ phase \in {"ready", "panicked"}
    /\ restarts < MaxRestarts
    /\ restarts' = restarts + 1
    /\ phase' = "start"
    /\ loadRes' = NoLoad
    /\ mem' = Default
    /\ owner' = NoTask
    /\ guardHeld' = FALSE
    /\ waiters' = <<>>
    /\ pc' = [t \in Tasks |-> "idle"]
    /\ op' = [t \in Tasks |-> OpGet]
    /\ sent' = [t \in Tasks |-> "none"]
    /\ event' = NoEvent
    /\ emitted' = <<>>
    /\ applied' = <<>>
    /\ issued' = 0
    /\ v0' = Default
    /\ logs' = {}
    /\ hist' = NoHist
    /\ diskAtLock' = NoFile
    /\ dirty' = FALSE
    /\ pinned' = NoPin
    /\ durability' = "none"
    /\ UNCHANGED <<disk, persisted, calls>>

(* --------------------------- the operations ---------------------------- *)
\* a task calls get, save, lock, mutate, set or reset: it reaches
\* self.state.lock().await
Call(t, o) ==
    /\ UNCHANGED <<dirty, pinned, durability>>
    /\ phase = "ready"
    /\ pc[t] = "idle"
    /\ IsMut(o) => calls < MaxCalls
    /\ pc' = [pc EXCEPT ![t] = "wait"]
    /\ op' = [op EXCEPT ![t] = o]
    /\ waiters' = Append(waiters, t)
    /\ calls' = IF IsMut(o) THEN calls + 1 ELSE calls
    /\ issued' = IF IsMut(o) THEN issued + 1 ELSE issued
    /\ hist' = IF IsMut(o)
               THEN Norm([hist EXCEPT
                        !.composed = ApplyFn(o.f, @),
                        !.sequential = @ /\ \A u \in Tasks : ~MutInFlight(u),
                        !.onlyInc = @ /\ o = OpMutate(Inc)])
               ELSE hist
    /\ event' = NoEvent
    /\ UNCHANGED <<phase, loadRes, disk, mem, owner, guardHeld, sent, emitted,
                   applied, restarts, v0, logs, persisted, diskAtLock>>

\* mutant: the lock is handed out while another task holds it
CanAcquireHeld(t) == Len(waiters) > 0 /\ Head(waiters) = t

\* mutant: the mutex is re-entrant, its holder may lock it again
CanAcquireReentrant(t) ==
    (owner = NoTask \/ owner = t) /\ Len(waiters) > 0 /\ Head(waiters) = t

\* tokio's Mutex: free, and t is the first in the queue
CanAcquire(t) == owner = NoTask /\ Len(waiters) > 0 /\ Head(waiters) = t

\* self.state.lock().await completes; lock() hands the guard to its caller
Acquire(t) ==
    /\ UNCHANGED <<dirty, pinned, durability>>
    /\ pc[t] = "wait"
    /\ CanAcquire(t)
    /\ owner' = t
    /\ waiters' = Tail(waiters)
    /\ diskAtLock' = disk
    /\ IF op[t].name = "lock"
       THEN /\ pc' = [pc EXCEPT ![t] = "idle"]
            /\ op' = [op EXCEPT ![t] = OpGet]
            /\ event' = Returned(OpLock, "guard", 0, "none", "none", disk)
            /\ guardHeld' = TRUE
       ELSE /\ pc' = [pc EXCEPT ![t] = "locked"]
            /\ event' = NoEvent
            /\ UNCHANGED <<op, guardHeld>>
    /\ UNCHANGED <<phase, loadRes, disk, mem, sent, emitted, applied, calls,
                   issued, restarts, v0, logs, hist, persisted>>

\* mutant: the guard is leaked, the mutex stays locked when the call ends
ReleasedNever == owner

\* the guard goes out of scope
Released == NoTask

\* function(state): the transform runs on the live value, under the lock
Transformed(f, x) == ApplyFn(f, x)

Apply(t) ==
    /\ pinned' = NoPin
    /\ UNCHANGED <<dirty, durability>>
    /\ pc[t] = "locked"
    /\ IsMut(op[t])
    /\ mem' = Transformed(op[t].f, mem)
    /\ applied' = Append(applied, mem')
    /\ pc' = [pc EXCEPT ![t] = "applied"]
    /\ event' = NoEvent
    /\ UNCHANGED <<phase, loadRes, disk, owner, guardHeld, waiters, op, sent,
                   emitted, calls, issued, restarts, v0, logs, hist, persisted,
                   diskAtLock>>

\* mutant: the payload is cloned before the transform has run
PayloadBefore(x) == IF Len(applied) <= 1 THEN v0 ELSE applied[Len(applied) - 1]

\* self.emit_update(state.to_owned()): the payload is a clone of the live value
Payload(x) == x

\* mutant: mutate forgets to call emit_update
EmitNothing(t) ==
    /\ pc[t] = "applied"
    /\ dirty' = FALSE
    /\ sent' = [sent EXCEPT ![t] = "ok"]
    /\ pc' = [pc EXCEPT ![t] = "emitted"]
    /\ event' = NoEvent
    /\ UNCHANGED <<phase, loadRes, disk, mem, owner, guardHeld, waiters, op,
                   emitted, applied, calls, issued, restarts, v0, logs, hist,
                   persisted, diskAtLock, pinned, durability>>

\* mutant: the Result of emit_all is unwrapped, a failed broadcast panics the
\* task: the guard is dropped in the unwinding and no persist attempt is made
EmitUnwraps(t) ==
    /\ dirty' = FALSE
    /\ UNCHANGED <<pinned, durability>>
    /\ pc[t] = "applied"
    /\ emitted' = Append(emitted, Payload(mem))
    /\ \E delivered \in BOOLEAN :
         IF delivered
         THEN /\ sent' = [sent EXCEPT ![t] = "ok"]
              /\ pc' = [pc EXCEPT ![t] = "emitted"]
              /\ event' = NoEvent
              /\ UNCHANGED <<owner, op, diskAtLock>>
         ELSE /\ sent' = [sent EXCEPT ![t] = "none"]
              /\ pc' = [pc EXCEPT ![t] = "idle"]
              /\ event' = Returned(op[t], "panicked", 0, "err", "none",
                                   diskAtLock)
              /\ owner' = NoTask
              /\ op' = [op EXCEPT ![t] = OpGet]
              /\ diskAtLock' = NoFile
    /\ UNCHANGED <<phase, loadRes, disk, mem, guardHeld, waiters, applied,
                   calls, issued, restarts, v0, logs, hist, persisted>>

\* handle.emit_all(event, payload).ok(): one call, its failure dropped
Emit(t) ==
    /\ dirty' = FALSE
    /\ UNCHANGED <<pinned, durability>>
    /\ pc[t] = "applied"
    /\ emitted' = Append(emitted, Payload(mem))
    /\ \E delivered \in BOOLEAN :
         sent' = [sent EXCEPT ![t] = IF delivered THEN "ok" ELSE "err"]
    /\ pc' = [pc EXCEPT ![t] = "emitted"]
    /\ event' = NoEvent
    /\ UNCHANGED <<phase, loadRes, disk, mem, owner, guardHeld, waiters, op,
                   applied, calls, issued, restarts, v0, logs, hist, persisted,
                   diskAtLock>>

\* the persist attempts of this life after one more attempt by a mutate that
\* then returns, and after one more attempt by a save
AfterMutate(d, writeOk) == IF d = "fault" \/ ~writeOk THEN "fault" ELSE "ok"

AfterSave(d, writeOk) == IF writeOk THEN d ELSE "fault"

\* what a write attempt leaves behind in the record of the last good write
Written(p, v, writeOk) == IF writeOk THEN [valid |-> TRUE, val |-> v] ELSE p

Outcome(writeOk) == IF writeOk THEN "ok" ELSE "err"

\* mutant: mutate hands the persist error to its caller
MutateResultPropagates(writeOk) == IF writeOk THEN "unit" ELSE "err"

\* mutate's result: lock.save().await.ok() throws the Result away
MutateResult(writeOk) == "unit"

\* what mutate writes to stderr when its persist attempt fails: nothing
MutateLogs(l, writeOk) == l

\* mutant: mutate returns without calling lock.save()
MutateSkipsPersist(t) ==
    /\ pinned' = IF op[t].name \in {"set", "reset"} THEN PinOf(op[t]) ELSE pinned
    /\ UNCHANGED <<dirty, disk, persisted, logs>>
    /\ pc[t] = "emitted"
    /\ durability' = AfterMutate(durability, TRUE)
    /\ event' = Returned(op[t], MutateResult(TRUE), 0, sent[t], "none",
                         diskAtLock)
    /\ owner' = Released
    /\ diskAtLock' = NoFile
    /\ pc' = [pc EXCEPT ![t] = "idle"]
    /\ op' = [op EXCEPT ![t] = OpGet]
    /\ sent' = [sent EXCEPT ![t] = "none"]
    /\ UNCHANGED <<phase, loadRes, mem, guardHeld, waiters, emitted, applied,
                   calls, issued, restarts, v0, hist>>

\* mutant: the persist attempt may run before emit_update, which is then
\* never called
MutatePersistEarly(t) ==
    /\ pinned' = IF op[t].name \in {"set", "reset"} THEN PinOf(op[t]) ELSE pinned
    /\ UNCHANGED dirty
    /\ pc[t] \in {"applied", "emitted"}
    /\ \E writeOk \in BOOLEAN :
         /\ disk' = SaveTo(disk, mem, writeOk)
         /\ persisted' = Written(persisted, mem, writeOk)
         /\ logs' = MutateLogs(logs, writeOk)
         /\ durability' = AfterMutate(durability, writeOk)
         /\ event' = Returned(op[t], MutateResult(writeOk), 0, sent[t],
                              Outcome(writeOk), diskAtLock)
    /\ owner' = Released
    /\ diskAtLock' = NoFile
    /\ pc' = [pc EXCEPT ![t] = "idle"]
    /\ op' = [op EXCEPT ![t] = OpGet]
    /\ sent' = [sent EXCEPT ![t] = "none"]
    /\ UNCHANGED <<phase, loadRes, mem, guardHeld, waiters, emitted, applied,
                   calls, issued, restarts, v0, hist>>

\* lock.save().await.ok(); then the guard is dropped and mutate returns
MutatePersist(t) ==
    /\ pinned' = IF op[t].name \in {"set", "reset"} THEN PinOf(op[t]) ELSE pinned
    /\ UNCHANGED dirty
    /\ pc[t] = "emitted"
    /\ \E writeOk \in BOOLEAN :
         /\ disk' = SaveTo(disk, mem, writeOk)
         /\ persisted' = Written(persisted, mem, writeOk)
         /\ logs' = MutateLogs(logs, writeOk)
         /\ durability' = AfterMutate(durability, writeOk)
         /\ event' = Returned(op[t], MutateResult(writeOk), 0, sent[t],
                              Outcome(writeOk), diskAtLock)
    /\ owner' = Released
    /\ diskAtLock' = NoFile
    /\ pc' = [pc EXCEPT ![t] = "idle"]
    /\ op' = [op EXCEPT ![t] = OpGet]
    /\ sent' = [sent EXCEPT ![t] = "none"]
    /\ UNCHANGED <<phase, loadRes, mem, guardHeld, waiters, emitted, applied,
                   calls, issued, restarts, v0, hist>>

\* mutant: save drops the error as mutate does
SaveResultSwallowed(writeOk) == "ok"

\* save's result is the Result of SaveableToml::save
SaveResult(writeOk) == IF writeOk THEN "ok" ELSE "err"

\* self.state.lock().await.save().await
SavePersist(t) ==
    /\ UNCHANGED <<dirty, pinned>>
    /\ pc[t] = "locked"
    /\ op[t].name = "save"
    /\ \E writeOk \in BOOLEAN :
         /\ disk' = SaveTo(disk, mem, writeOk)
         /\ persisted' = Written(persisted, mem, writeOk)
         /\ event' = Returned(OpSave, SaveResult(writeOk), 0, "none",
                              Outcome(writeOk), diskAtLock)
         /\ durability' = AfterSave(durability, writeOk)
    /\ owner' = Released
    /\ diskAtLock' = NoFile
    /\ pc' = [pc EXCEPT ![t] = "idle"]
    /\ op' = [op EXCEPT ![t] = OpGet]
    /\ UNCHANGED <<phase, loadRes, mem, guardHeld, waiters, sent, emitted,
                   applied, calls, issued, restarts, v0, logs, hist>>

\* mutant: get answers with the value held after init
ClonedStale(x) == v0

\* lock.state.clone()
Cloned(x) == x

\* get: clone under the lock, drop the guard, return the clone
GetReturn(t) ==
    /\ UNCHANGED <<dirty, pinned, durability>>
    /\ pc[t] = "locked"
    /\ op[t].name = "get"
    /\ event' = Returned(OpGet, "value", Cloned(mem), "none", "none", diskAtLock)
    /\ owner' = Released
    /\ diskAtLock' = NoFile
    /\ pc' = [pc EXCEPT ![t] = "idle"]
    /\ UNCHANGED <<phase, loadRes, disk, mem, guardHeld, waiters, op, sent,
                   emitted, applied, calls, issued, restarts, v0, logs, hist,
                   persisted>>

\* the task that called lock() still has the MutexGuard
HoldsGuard(t) == owner = t /\ guardHeld

\* mutant: a write through the guard is announced as a mutate is
GuardWriteNotifies(t, v) ==
    /\ dirty' = TRUE
    /\ pinned' = NoPin
    /\ UNCHANGED durability
    /\ HoldsGuard(t)
    /\ pc[t] = "idle"
    /\ mem # v
    /\ mem' = v
    /\ emitted' = Append(emitted, Payload(v))
    /\ hist' = Disturbed(hist)
    /\ event' = NoEvent
    /\ UNCHANGED <<phase, loadRes, disk, owner, guardHeld, waiters, pc, op,
                   sent, applied, calls, issued, restarts, v0, logs,
                   persisted, diskAtLock>>

\* a write to guard.state through the MutexGuard returned by lock()
GuardWrite(t, v) ==
    /\ dirty' = TRUE
    /\ pinned' = NoPin
    /\ UNCHANGED durability
    /\ HoldsGuard(t)
    /\ pc[t] = "idle"
    /\ mem # v
    /\ mem' = v
    /\ hist' = Disturbed(hist)
    /\ event' = NoEvent
    /\ UNCHANGED <<phase, loadRes, disk, owner, guardHeld, waiters, pc, op,
                   sent, emitted, applied, calls, issued, restarts, v0, logs,
                   persisted, diskAtLock>>

\* the MutexGuard returned by lock() is dropped
GuardDrop(t) ==
    /\ UNCHANGED <<dirty, pinned, durability>>
    /\ HoldsGuard(t)
    /\ pc[t] = "idle"
    /\ owner' = Released
    /\ guardHeld' = FALSE
    /\ diskAtLock' = NoFile
    /\ event' = NoEvent
    /\ UNCHANGED <<phase, loadRes, disk, mem, waiters, pc, op, sent, emitted,
                   applied, calls, issued, restarts, v0, logs, hist, persisted>>

Without(q, t) == SelectSeq(q, LAMBDA u : u # t)

\* the future of a call is dropped while it waits for the lock; whatever the
\* task holds (a guard of an earlier lock()) is dropped with it
CancelWait(t) ==
    /\ UNCHANGED <<dirty, pinned, durability>>
    /\ pc[t] = "wait"
    /\ waiters' = Without(waiters, t)
    /\ pc' = [pc EXCEPT ![t] = "idle"]
    /\ op' = [op EXCEPT ![t] = OpGet]
    /\ event' = Returned(op[t], "cancelled", 0, "none", "none", NoFile)
    /\ IF HoldsGuard(t)
       THEN owner' = Released /\ guardHeld' = FALSE /\ diskAtLock' = NoFile
       ELSE UNCHANGED <<owner, guardHeld, diskAtLock>>
    /\ hist' = Disturbed(hist)
    /\ UNCHANGED <<phase, loadRes, disk, mem, sent, emitted, applied, calls,
                   issued, restarts, v0, logs, persisted>>

\* the persist I/O of t's mutate or save is in flight
Persisting(t) ==
    \/ pc[t] = "emitted"
    \/ pc[t] = "locked" /\ op[t].name = "save"

\* mutant: the guard outlives the dropped future (as if it had been leaked)
CancelPersistLeaks(t) ==
    /\ UNCHANGED <<dirty, pinned>>
    /\ durability' = "fault"
    /\ Persisting(t)
    /\ \E written \in BOOLEAN :
         /\ disk' = SaveTo(disk, mem, written)
         /\ persisted' = Written(persisted, mem, written)
    /\ pc' = [pc EXCEPT ![t] = "idle"]
    /\ op' = [op EXCEPT ![t] = OpGet]
    /\ sent' = [sent EXCEPT ![t] = "none"]
    /\ event' = Returned(op[t], "cancelled", 0, sent[t], "none", diskAtLock)
    /\ hist' = Disturbed(hist)
    /\ UNCHANGED <<phase, loadRes, mem, owner, guardHeld, waiters, emitted,
                   applied, calls, issued, restarts, v0, logs, diskAtLock>>

\* the future is dropped while the persist I/O is in flight: the guard is
\* dropped with it, and the file is as it was or fully rewritten
CancelPersist(t) ==
    /\ UNCHANGED <<dirty, pinned>>
    /\ durability' = "fault"
    /\ Persisting(t)
    /\ \E written \in BOOLEAN :
         /\ disk' = SaveTo(disk, mem, written)
         /\ persisted' = Written(persisted, mem, written)
    /\ owner' = Released
    /\ diskAtLock' = NoFile
    /\ pc' = [pc EXCEPT ![t] = "idle"]
    /\ op' = [op EXCEPT ![t] = OpGet]
    /\ sent' = [sent EXCEPT ![t] = "none"]
    /\ event' = Returned(op[t], "cancelled", 0, sent[t], "none", diskAtLock)
    /\ hist' = Disturbed(hist)
    /\ UNCHANGED <<phase, loadRes, mem, guardHeld, waiters, emitted, applied,
                   calls, issued, restarts, v0, logs>>

Next ==
    \/ InitResolve
    \/ InitLoad
    \/ InitDone
    \/ Restart
    \/ \E t \in Tasks, o \in Ops : Call(t, o)
    \/ \E t \in Tasks : Acquire(t)
    \/ \E t \in Tasks : Apply(t)
    \/ \E t \in Tasks : Emit(t)
    \/ \E t \in Tasks : MutatePersist(t)
    \/ \E t \in Tasks : SavePersist(t)
    \/ \E t \in Tasks : GetReturn(t)
    \/ \E t \in Tasks, v \in GuardVals : GuardWrite(t, v)
    \/ \E t \in Tasks : GuardDrop(t)
    \/ \E t \in Tasks : CancelWait(t)
    \/ \E t \in Tasks : CancelPersist(t)

Spec == Init /\ [][Next]_vars

(***************************************************************************)
(* Fair scheduling: the runtime keeps polling a task that can run, tokio's *)
(* Mutex hands a free lock to the first waiter, and the persist I/O of a   *)
(* mutate or save ends, in success or in failure.  Nothing obliges a       *)
(* caller to call, to drop a guard, or to cancel.                          *)
(***************************************************************************)
Fairness ==
    \A t \in Tasks :
      /\ WF_vars(Acquire(t))
      /\ WF_vars(Apply(t))
      /\ WF_vars(Emit(t))
      /\ WF_vars(MutatePersist(t))
      /\ WF_vars(SavePersist(t))
      /\ WF_vars(GetReturn(t))

\* the steps of one life of the process: a call that is pending when the
\* process ends has not returned, so the restart is no step of a fair run
Life ==
    \/ InitResolve
    \/ InitLoad
    \/ InitDone
    \/ \E t \in Tasks, o \in Ops : Call(t, o)
    \/ \E t \in Tasks : Acquire(t)
    \/ \E t \in Tasks : Apply(t)
    \/ \E t \in Tasks : Emit(t)
    \/ \E t \in Tasks : MutatePersist(t)
    \/ \E t \in Tasks : SavePersist(t)
    \/ \E t \in Tasks : GetReturn(t)
    \/ \E t \in Tasks, v \in GuardVals : GuardWrite(t, v)
    \/ \E t \in Tasks : GuardDrop(t)
    \/ \E t \in Tasks : CancelWait(t)
    \/ \E t \in Tasks : CancelPersist(t)

FairSpec == Init /\ [][Life]_vars /\ Fairness

(* ------------------------------ claims --------------------------------- *)
Last(q) == q[Len(q)]

Quiet == \A t \in Tasks : pc[t] = "idle"

\* a mutate/set/reset of t holds the lock: from the transform's start to the
\* end of its persist attempt
InSection(t) == IsMut(op[t]) /\ pc[t] \in {"locked", "applied", "emitted"}

\* C1: no lost updates. At most one mutate is in its lock-held section at any
\* time, and once every call of a run of increment-only mutate calls (issued
\* concurrently or not, none cancelled, no guard write) has returned, the
\* in-memory value is the value after init plus the number of calls.
C1_NoLostUpdates ==
    /\ Cardinality({t \in Tasks : InSection(t)}) <= 1
    /\ \A t \in Tasks : InSection(t) => owner = t
    /\ (phase = "ready" /\ hist.undisturbed /\ hist.onlyInc
          /\ \A t \in Tasks : ~MutInFlight(t))
       => mem = v0 + issued

\* C1 witness: two increments issued concurrently have both returned
C1_Witness ==
    /\ phase = "ready"
    /\ Quiet
    /\ hist.undisturbed /\ hist.onlyInc /\ ~hist.sequential
    /\ issued = 2
    /\ mem = v0 + 2

\* C2: after mutate calls issued one after another (each returned before the
\* next is issued), whatever their persist attempts and notifications did,
\* the value in memory, and the value a get() returns, is the composition of
\* the transforms in call order applied to the value held after init.
C2_SerializationCorrect ==
    (phase = "ready" /\ hist.undisturbed /\ hist.sequential
       /\ \A t \in Tasks : ~MutInFlight(t))
    => /\ mem = hist.composed
       /\ event.kind = "value" => event.val = hist.composed

\* C2 witness: set(1) then the increment, from 0, and get() returned 2 (the
\* other order gives 1)
C2_Witness ==
    /\ phase = "ready"
    /\ hist.undisturbed /\ hist.sequential /\ ~hist.onlyInc
    /\ v0 = Default
    /\ issued = 2
    /\ event.kind = "value"
    /\ event.val = 2

\* C3: every transform applied is followed by exactly one emit_all call, whose
\* payload is the value right after that transform; the k-th payload is the
\* value after the k-th transform, and only the mutate that has applied its
\* transform and not yet emitted is missing from the notifications.
C3_NotificationsFollowCommits ==
    /\ Len(emitted) + Cardinality({t \in Tasks : pc[t] = "applied"}) = Len(applied)
    /\ \A k \in 1..Len(emitted) : emitted[k] = applied[k]
    /\ \A t \in Tasks : pc[t] = "emitted" => Last(emitted) = mem

\* C3 witness: two concurrent mutate calls were notified in commit order
C3_Witness ==
    /\ ~hist.sequential
    /\ Len(emitted) = 2
    /\ emitted = applied
    /\ emitted[1] # emitted[2]

Payloads == {emitted[k] : k \in 1..Len(emitted)}

LockFree == phase = "ready" /\ owner = NoTask

\* C4 as claimed: whenever the lock is free and something has been emitted,
\* the in-memory value is the last payload, and every get() returns the value
\* held after init or an emitted payload, writes through the guard included.
C4_Original ==
    LockFree =>
      /\ Len(emitted) > 0 => mem = Last(emitted)
      /\ event.kind = "value" => event.val \in {v0} \cup Payloads

\* C4 amended: whenever the lock is free and no write has been made through a
\* guard returned by lock() since the last notification, the in-memory value
\* is the last payload (the value held after init when nothing was emitted),
\* and that is what a get() returns.
C4_ValueIsLastPayload ==
    (LockFree /\ ~dirty) =>
      /\ Len(emitted) > 0 => mem = Last(emitted)
      /\ Len(emitted) = 0 => mem = v0
      /\ event.kind = "value" => event.val = mem /\ event.val \in {v0} \cup Payloads

\* C4 witness: after a cancellation and a use of lock() without a write, a
\* get() returned the last payload
C4_Witness ==
    /\ LockFree /\ ~dirty
    /\ ~hist.undisturbed
    /\ Len(emitted) = 2
    /\ event.kind = "value"
    /\ event.val = Last(emitted)
    /\ event.val # v0

\* C5: when the persist attempt of a mutate fails, mutate still returns
\* normally, the value in memory is the transformed value, its notification
\* has been emitted, the file is as the call found it, the lock is free.
C5_PersistFailureSwallowed ==
    (IsMut(event.op) /\ event.persist = "err") =>
      /\ event.kind = "unit"
      /\ Len(applied) > 0 /\ mem = Last(applied)
      /\ Len(emitted) = Len(applied) /\ Last(emitted) = mem
      /\ disk = event.found
      /\ owner = NoTask /\ ~guardHeld

\* C5 witness: a mutate returned after a failed persist attempt and the file
\* lags behind the value
C5_Witness ==
    /\ IsMut(event.op) /\ event.persist = "err" /\ event.kind = "unit"
    /\ disk # FileOf(Render(mem))
    /\ mem # v0

\* a save that holds the lock takes its step
SaveMoves(t) ==
    /\ phase' = "ready"
    /\ owner = t /\ pc[t] = "locked" /\ op[t].name = "save"
    /\ (pc'[t] # pc[t] \/ owner' # owner \/ disk' # disk)

SaveOutcome(t) ==
    /\ pc'[t] = "idle"
    /\ owner' = NoTask
    /\ mem' = mem /\ emitted' = emitted /\ applied' = applied
    /\ event'.op = OpSave
    /\ event'.kind \in {"ok", "err", "cancelled"}
    /\ event'.persist = "err" => event'.kind = "err"
    /\ event'.kind = "err" => event'.persist = "err"
    /\ event'.kind = "ok" => event'.persist = "ok"

\* C6: save() returns an error exactly when its write fails and success
\* otherwise; its one step makes the one attempt, ends the call, leaves the
\* value alone, emits nothing and frees the lock.
C6_SaveReportsFailure == [][\A t \in Tasks : SaveMoves(t) => SaveOutcome(t)]_vars

\* C6 witness: a save returned an error, the lock is free, the file lags
C6_Witness ==
    /\ event.op = OpSave /\ event.kind = "err"
    /\ owner = NoTask
    /\ Len(emitted) > 0
    /\ disk # FileOf(Render(mem))

\* init leaves the load behind it
InitReturns == phase = "loaded" /\ phase' # "loaded"

LoadFailed == ~disk.exists \/ ~Parse(disk.content).ok \/ ~loadRes.ok

\* C7: whenever the file is missing, malformed or unreadable, init still
\* returns a container, and the container holds T::default(): that is what a
\* get() returns from it until a transform or a guard write changes the value.
C7_InitFallsBack ==
    /\ [][InitReturns => /\ phase' = "ready"
                         /\ LoadFailed => mem' = Default /\ v0' = Default]_vars
    /\ []((phase = "ready" /\ "init" \in logs /\ applied = <<>> /\ ~dirty
             /\ event.kind = "value") => event.val = Default)

\* C7 witness: init ran on a malformed file and a get() returned the default
C7_Witness ==
    /\ phase = "ready"
    /\ disk = Malformed
    /\ "init" \in logs
    /\ event.kind = "value"
    /\ event.val = Default

\* C8 as claimed: no outcome of its collaborators makes init panic.
C8_InitNeverPanics == phase # "panicked"

\* C9 as claimed: init on a location that holds the encoding of V (in
\* particular one a successful save or persist wrote, nothing written since)
\* yields a container holding V.
C9_Original ==
    [][InitReturns =>
         \A V \in DiskVals \cup {persisted.val} :
            disk = FileOf(Render(V)) => mem' = V /\ v0' = V]_vars

\* C9 amended: the same, provided init's read of the file does not fail with
\* an I/O error; and a successful write leaves the encoding of the value it
\* wrote on disk until the next write.
C9_RoundTrip ==
    [][/\ persisted'.valid => disk' = FileOf(Render(persisted'.val))
       /\ (InitReturns /\ loadRes.err # "io") =>
            \A V \in DiskVals \cup {persisted.val} :
               disk = FileOf(Render(V)) => mem' = V /\ v0' = V]_vars

\* C9 witness: a value of two digits written in one life is the value the
\* container holds after the next init
C9_Witness ==
    /\ restarts = 1
    /\ phase = "ready"
    /\ persisted.valid
    /\ v0 = persisted.val
    /\ v0 > 9
    /\ v0 \notin DiskVals

\* C10: once set(v) (reset(): v = T::default()) has returned, whether or not
\* its persist attempt succeeded, and until the next transform or guard
\* write, the value in memory is v and a get() returns v.
C10_SetAndResetReplace ==
    pinned.valid =>
      /\ mem = pinned.val
      /\ event.kind = "value" => event.val = pinned.val

\* C10 witness: set(1) returned after a failed persist attempt, and a get()
\* returned 1
C10_Witness ==
    /\ pinned.valid /\ pinned.val = 1
    /\ v0 # 1
    /\ disk # FileOf(Render(1))
    /\ event.kind = "value"
    /\ event.val = 1

\* the call of t that was in flight is dropped by this step
Cancelled(t) ==
    /\ phase' = "ready"
    /\ pc[t] # "idle" /\ pc'[t] = "idle"
    /\ event'.kind = "cancelled"

\* the lock is held only by a call in flight or through a guard of lock()
NoOrphanLock ==
    owner # NoTask => (guardHeld \/ pc[owner] \in {"locked", "applied", "emitted"})

\* C11: cancellation never leaves the lock held. A mutate, set, reset, save
\* or get dropped while it waits for the lock or while its persist I/O is in
\* flight holds the lock no longer and has left the queue; the lock is never
\* held by a call that is gone; and whenever the lock is free the first
\* caller in the queue can take it.
C11_CancelReleases ==
    /\ [][\A t \in Tasks : Cancelled(t) =>
            /\ owner' # t
            /\ owner = t => owner' = NoTask
            /\ \A i \in 1..Len(waiters') : waiters'[i] # t]_vars
    /\ [](phase = "ready" =>
            /\ NoOrphanLock
            /\ \A i \in 1..Len(waiters) : pc[waiters[i]] = "wait"
            /\ (owner = NoTask /\ Len(waiters) > 0)
                 => ENABLED Acquire(Head(waiters)))

\* C11 witness: a mutate was dropped while its persist I/O was in flight; the
\* lock is free and another caller is waiting for it
C11_Witness ==
    /\ event.kind = "cancelled"
    /\ IsMut(event.op) /\ event.emit # "none"
    /\ owner = NoTask
    /\ Len(waiters) > 0
    /\ pc[Head(waiters)] = "wait"

\* C12 as claimed: whenever the lock is free, a mutate has completed and
\* every persist attempt so far succeeded, the file holds the in-memory value
\* and that value is the last payload, writes through a guard included.
C12_Original ==
    (LockFree /\ durability = "ok") =>
      /\ disk = FileOf(Render(mem))
      /\ mem = Last(emitted)

\* C12 amended: the same, provided no write has been made through a guard
\* returned by lock() since the last notification; a persist attempt cut
\* short by a cancellation counts as one that did not succeed.
C12_DiskLagsOnlyAfterFault ==
    (LockFree /\ durability = "ok" /\ ~dirty) =>
      /\ disk = FileOf(Render(mem))
      /\ Len(emitted) > 0 /\ mem = Last(emitted)

\* C12 witness: after a call dropped in the queue, a guard write and a later
\* mutate whose persist succeeded, file, value and last payload agree
C12_Witness ==
    /\ LockFree /\ durability = "ok" /\ ~dirty
    /\ ~hist.undisturbed
    /\ mem > 7
    /\ disk = FileOf(Render(mem))
    /\ mem = Last(emitted)

\* C13: while a guard returned by lock() is held, no get, mutate, set, reset
\* or save is past its lock acquisition and none returns; nothing is
\* emitted, no transform runs and the file is not written; the value changes
\* only by the holder's write through the guard, which moves no call, emits
\* nothing and writes nothing.
C13_GuardIsExclusive ==
    /\ [][(guardHeld /\ phase' = "ready") =>
            /\ emitted' = emitted
            /\ applied' = applied
            /\ disk' = disk /\ persisted' = persisted
            /\ event'.kind \in {"none", "cancelled"}
            /\ mem' # mem => /\ guardHeld' /\ owner' = owner
                             /\ pc' = pc /\ waiters' = waiters]_vars
    /\ [](guardHeld => /\ owner # NoTask
                       /\ \A t \in Tasks : pc[t] \in {"idle", "wait"})

\* C13 witness: the holder has written through the guard while another task
\* waits in a call; the last payload and the file still hold the old value
C13_Witness ==
    /\ \E t \in Tasks : /\ HoldsGuard(t)
                         /\ \E u \in Tasks \ {t} : pc[u] = "wait"
    /\ mem \in GuardVals
    /\ Len(emitted) > 0
    /\ Last(emitted) # mem
    /\ disk = FileOf(Render(Last(emitted)))

\* C14: a failed broadcast never affects the mutation. Right after emit_all
\* has failed the call still holds the lock with the transformed value in
\* place and its persist attempt ahead; and a mutate whose broadcast failed
\* returns normally, after a persist attempt, with the transformed value in
\* memory and the lock free.
C14_EmitFailureIgnored ==
    /\ \A t \in Tasks : sent[t] = "err" =>
          /\ pc[t] = "emitted" /\ owner = t /\ IsMut(op[t])
          /\ mem = Last(applied) /\ Last(emitted) = mem
    /\ (event.emit = "err" /\ event.kind # "cancelled") =>
          /\ IsMut(event.op)
          /\ event.kind = "unit"
          /\ event.persist \in {"ok", "err"}
          /\ mem = Last(applied)
          /\ owner = NoTask

\* C14 witness: a mutate whose broadcast failed has returned, its value is
\* in memory and on disk
C14_Witness ==
    /\ event.emit = "err" /\ event.kind = "unit" /\ event.persist = "ok"
    /\ mem # v0
    /\ mem = Last(applied)
    /\ disk = FileOf(Render(mem))
    /\ owner = NoTask

\* the mutate of t has applied its transform and its persist attempt has
\* not ended
Committing(t) == IsMut(op[t]) /\ pc[t] \in {"applied", "emitted"}

\* the mutate of t returns by this step
MutateReturns(t) ==
    IsMut(op[t]) /\ pc[t] # "idle" /\ pc'[t] = "idle" /\ event'.kind = "unit"

\* C15: within one mutate the steps are: acquire, transform, emit, persist
\* attempt, release. A transform runs only in the holder of the lock, before
\* its emit; an emit only in the holder, right after its transform and
\* before any write; mutate returns and releases only after its persist
\* attempt, which writes the value last emitted. From the transform to the
\* end of the persist attempt the mutate holds the lock, and every
\* transform, notification, change of the value or file write in between is
\* its own step.
C15_MutateOrder ==
    [][phase' = "ready" =>
        /\ applied' # applied =>
              \E t \in Tasks : /\ owner = t /\ owner' = t
                               /\ pc[t] = "locked" /\ pc'[t] = "applied"
                               /\ emitted' = emitted /\ disk' = disk
        /\ emitted' # emitted =>
              \E t \in Tasks : /\ owner = t /\ owner' = t
                               /\ pc[t] = "applied" /\ pc'[t] = "emitted"
                               /\ Len(emitted') = Len(applied)
                               /\ mem' = mem /\ disk' = disk
        /\ \A t \in Tasks : MutateReturns(t) =>
              /\ pc[t] = "emitted"
              /\ owner = t /\ owner' = NoTask
              /\ event'.persist \in {"ok", "err"}
        /\ (IsMut(event'.op) /\ (disk' # disk \/ persisted' # persisted)) =>
              /\ \E t \in Tasks : pc[t] = "emitted" /\ pc'[t] = "idle"
              /\ Len(emitted) > 0 /\ Last(emitted) = mem
              /\ persisted' = [valid |-> TRUE, val |-> Last(emitted)]
        /\ \A t \in Tasks : Committing(t) =>
              /\ owner = t
              /\ (applied' # applied \/ emitted' # emitted \/ mem' # mem
                    \/ disk' # disk \/ persisted' # persisted \/ owner' # t)
                  => pc'[t] # pc[t]]_vars

\* C15 witness: the second of two mutate calls issued concurrently has
\* returned after a successful persist while another call waits in the queue
C15_Witness ==
    /\ IsMut(event.op) /\ event.kind = "unit" /\ event.persist = "ok"
    /\ ~hist.sequential /\ hist.undisturbed
    /\ Len(emitted) = 2
    /\ persisted = [valid |-> TRUE, val |-> Last(emitted)]
    /\ Len(waiters) > 0

\* C16: every operation releases the lock on every exit path: when a get,
\* mutate, set, reset or save returns, in success or after a failed persist
\* attempt, the lock is free. And under fair scheduling, with persist I/O
\* that ends and every guard of lock() dropped again, every call that waits
\* for the lock leaves it behind and every call that holds it returns.
C16_CallsReturn ==
    /\ [](event.kind \in {"unit", "value", "ok", "err"} => owner = NoTask)
    /\ ([]<>(~guardHeld)) =>
          \A t \in Tasks : (pc[t] # "idle") ~> (pc[t] = "idle")

\* C16 witness: a mutate has returned after a failed persist attempt while
\* another call is queued behind it
C16_Witness ==
    /\ IsMut(event.op) /\ event.kind = "unit" /\ event.persist = "err"
    /\ owner = NoTask
    /\ Len(waiters) > 0
    /\ \E t \in Tasks : pc[t] = "wait" /\ op[t].name \in {"get", "save"}

\* C17 as claimed: every mutate whose persist attempt failed has left a
\* diagnostic in the logs by the time it returns.
C17_PersistFailureLogged ==
    (IsMut(event.op) /\ event.kind = "unit" /\ event.persist = "err")
      => "persist" \in logs

\* init of the current life has not returned yet
InInit == phase \in {"start", "resolved", "loaded"}

\* C18: init performs no write: no step of init changes the file, whether
\* the load succeeds or falls back. The file changes only in the step that
\* ends the persist attempt of a mutate, set, reset or save; a get(), a
\* lock(), a write through the guard and its drop leave the file alone.
C18_InitWritesNothing ==
    [][/\ InInit => disk' = disk /\ persisted' = persisted
       /\ (disk' # disk \/ persisted' # persisted) =>
             /\ phase = "ready"
             /\ event'.op.name \in {"mutate", "set", "reset", "save"}
             /\ \E t \in Tasks : Persisting(t) /\ pc'[t] = "idle"
       /\ (event'.kind \in {"value", "guard"} \/ guardHeld)
             => disk' = disk /\ persisted' = persisted]_vars

\* C18 witness: in the second life init fell back on a malformed file, then
\* lock() was taken and the value written through the guard: the file is
\* still the malformed one
C18_Witness ==
    /\ restarts = 1
    /\ phase = "ready"
    /\ "init" \in logs
    /\ disk = Malformed
    /\ ~persisted.valid
    /\ guardHeld /\ dirty

\* t holds the guard returned by lock() and has called an operation on the
\* same instance without dropping it
SelfLocked(t) == HoldsGuard(t) /\ pc[t] = "wait"

\* C19: the lock is not re-entrant. While a task holds the guard of lock()
\* and waits in a call on the same instance, no call of any task acquires
\* the lock or returns, and the value, the notifications and the file stay
\* as they are; the situation ends only when a pending call is dropped by
\* its caller or the process ends, so a call left alone never returns.
C19_NotReentrant ==
    [][\A t \in Tasks : (SelfLocked(t) /\ phase' = "ready") =>
          /\ event'.kind \in {"none", "cancelled"}
          /\ \A u \in Tasks : pc'[u] \in {"idle", "wait"}
          /\ mem' = mem /\ emitted' = emitted /\ disk' = disk
          /\ event'.kind = "none" =>
                /\ SelfLocked(t)'
                /\ \A u \in Tasks : pc[u] = "wait" => pc'[u] = "wait"]_vars

\* C19 witness: a task holding the guard waits in a mutate, and the other
\* task's call is queued behind it
C19_Witness ==
    \E t \in Tasks :
       /\ SelfLocked(t) /\ IsMut(op[t])
       /\ \A u \in Tasks : pc[u] = "wait"
       /\ Head(waiters) = t

====
